---- MODULE Spec2Model ----
(***************************************************************************)
(* Frame filtering functions of vip/var/filters.py: the centred spectral   *)
(* transform (fft / ifft), the high-pass dispatcher, the 2-D Gaussian       *)
(* filter, the wavelet denoiser and the Gaussian kernel generator.          *)
(*                                                                         *)
(* A frame is a function [0..rows-1 -> [0..cols-1 -> Int]].  Complex        *)
(* numbers are exact: a pair <<a, b>> stands for a + b*z, z the primitive   *)
(* L-th root of unity exp(2*pi*i/L), L the least common multiple of the     *)
(* frame's two dimensions (L in {1,2,3,4,6}, where 2*Re(z) is an integer).  *)
(* A magnitude is a record [sq, den] standing for sqrt(sq)/den.             *)
(***************************************************************************)
EXTENDS Integers, Sequences, FiniteSets, TLC

VARIABLES
    call,   \* the running call of a public filter function (its locals)
    ft,     \* an fft / ifft round trip (array, fft_array, new_array)
    th,     \* a thresholding of a coefficient array applied repeatedly
    gk      \* a call of gaussian_kernel (its locals)

vars == <<call, ft, th, gk>>

Idle == [pc |-> "idle"]

\* ------------------------------------------------------------ bounds
\* Largest absolute pixel value of the frames of the round trip.
MaxVal == 1

\* ------------------------------------------------------------ arrays
Rows(a) == Cardinality(DOMAIN a)
Cols(a) == Cardinality(DOMAIN a[0])

Matrices(R, C, V) == [0..R-1 -> [0..C-1 -> V]]

AbsInt(v) == IF v < 0 THEN -v ELSE v

RECURSIVE Gcd(_, _)
Gcd(a, b) == IF b = 0 THEN a ELSE Gcd(b, a % b)

Lcm(a, b) == (a * b) \div Gcd(a, b)

\* ------------------------------------------------- exact complex numbers
\* 2*Re(z) for z = exp(2*pi*i/L); z satisfies z^2 = TwoRe(L)*z - 1.
TwoRe(L) == CASE L = 1 -> 2 [] L = 2 -> -2 [] L = 3 -> -1 [] L = 4 -> 0 [] L = 6 -> 1

CAdd(z, w) == <<z[1] + w[1], z[2] + w[2]>>

CMul(L, z, w) ==
    <<z[1] * w[1] - z[2] * w[2], z[1] * w[2] + z[2] * w[1] + TwoRe(L) * z[2] * w[2]>>

RECURSIVE ZetaPow(_, _)
ZetaPow(L, j) == IF j = 0 THEN <<1, 0>> ELSE CMul(L, ZetaPow(L, j - 1), <<0, 1>>)

\* |a + b*z|^2 = a^2 + b^2 + 2*Re(z)*a*b
NormSq(L, z) == z[1] * z[1] + z[2] * z[2] + TwoRe(L) * z[1] * z[2]

\* Sum of f[0] + ... + f[n-1] of complex numbers.
RECURSIVE CSum(_, _)
CSum(f, n) == IF n = 0 THEN <<0, 0>> ELSE CAdd(CSum(f, n - 1), f[n - 1])

\* The twiddle factor exp(sign * 2*pi*i * (k*m/R + l*n/C)) as a power of z.
Twiddle(R, C, sign, k, m, l, n) ==
    LET L == Lcm(R, C)
        e == (k * m * (L \div R) + l * n * (L \div C)) % L
    IN  ZetaPow(L, IF sign > 0 THEN e ELSE (L - e) % L)

\* The 2-D discrete Fourier transform with the given sign of the exponent,
\* not normalised: sum over m, n of a[m][n] * exp(sign*2*pi*i*(k*m/R + l*n/C)).
Dft2(a, sign) ==
    LET R == Rows(a)
        C == Cols(a)
        L == Lcm(R, C)
    IN  [k \in 0..R-1 |-> [l \in 0..C-1 |->
            CSum([m \in 0..R-1 |->
                    CSum([n \in 0..C-1 |->
                            CMul(L, a[m][n], Twiddle(R, C, sign, k, m, l, n))], C)], R)]]

\* A real frame as a complex array.
ToComplex(a) == [m \in DOMAIN a |-> [n \in DOMAIN a[m] |-> <<a[m][n], 0>>]]

\* numpy.fft.fft2
fft2(a) == Dft2(a, -1)

\* numpy.fft.ifft2: the result's entries are the numerators over Rows*Cols.
ifft2(a) == Dft2(a, 1)

\* numpy.fft.fftshift: the entry at index i moves to (i + n div 2) mod n.
fftshift(a) ==
    LET R == Rows(a)
        C == Cols(a)
    IN  [i \in 0..R-1 |-> [j \in 0..C-1 |->
            a[(i + R - (R \div 2)) % R][(j + C - (C \div 2)) % C]]]

\* numpy.fft.ifftshift: the entry at index i moves to (i - n div 2) mod n.
ifftshift(a) ==
    LET R == Rows(a)
        C == Cols(a)
    IN  [i \in 0..R-1 |-> [j \in 0..C-1 |->
            a[(i + (R \div 2)) % R][(j + (C \div 2)) % C]]]

\* numpy.abs of the complex numerators z over den: the magnitude sqrt(sq)/den.
Mag(L, z, den) == [sq |-> NormSq(L, z), den |-> den]

\* The magnitude of the real number v, written over den.
MagOfReal(v, den) == [sq |-> (v * den) * (v * den), den |-> den]

\* A magnitude equals the real number v.
MagEquals(m, v) == v >= 0 /\ m = MagOfReal(v, m.den)

fft(array) == fftshift(fft2(ToComplex(array)))

\* The forward transform called in place of the inverse one.
ifft_forward(array) ==
    LET R == Rows(array)
        C == Cols(array)
    IN  [m \in 0..R-1 |-> [n \in 0..C-1 |->
            Mag(Lcm(R, C), fft2(ifftshift(array))[m][n], 1)]]

ifft(array) ==
    LET R == Rows(array)
        C == Cols(array)
        z == ifft2(ifftshift(array))
    IN  [m \in 0..R-1 |-> [n \in 0..C-1 |-> Mag(Lcm(R, C), z[m][n], R * C)]]

\* ------------------------------------------------ the fft/ifft round trip
\* Shapes of the frames transformed (even and odd numbers of rows and columns).
RoundTripShapes ==
    {<<1, 1>>, <<1, 2>>, <<2, 1>>, <<2, 2>>, <<1, 3>>, <<3, 1>>,
     <<2, 3>>, <<3, 2>>, <<1, 4>>, <<4, 1>>}

RoundTripFrames ==
    UNION {Matrices(s[1], s[2], (-MaxVal)..MaxVal) : s \in RoundTripShapes}

InitFFT ==
    /\ \E a \in RoundTripFrames :
          ft = [pc |-> "fft", array |-> a, fft_array |-> <<>>, new_array |-> <<>>]
    /\ call = Idle
    /\ th = Idle
    /\ gk = Idle

FT_fft ==
    /\ ft.pc = "fft"
    /\ ft' = [ft EXCEPT !.pc = "ifft", !.fft_array = fft(ft.array)]
    /\ UNCHANGED <<call, th, gk>>

FT_ifft ==
    /\ ft.pc = "ifft"
    /\ ft' = [ft EXCEPT !.pc = "done", !.new_array = ifft(ft.fft_array)]
    /\ UNCHANGED <<call, th, gk>>

NextFFT == FT_fft \/ FT_ifft

SpecFFT == InitFFT /\ [][NextFFT]_vars

\* C3 (as claimed): for every real-valued frame x, of any sign, ifft(fft(x))
\* equals x.
C3_RoundTripIsIdentity ==
    ft.pc = "done" =>
        \A m \in DOMAIN ft.array : \A n \in DOMAIN ft.array[m] :
            MagEquals(ft.new_array[m][n], ft.array[m][n])

\* C3 (amended): ifft(fft(x)) equals the element-wise absolute value of x, so
\* it equals x exactly when x has no negative entry.
C3_RoundTripIsAbs ==
    ft.pc = "done" =>
        /\ DOMAIN ft.new_array = DOMAIN ft.array
        /\ \A m \in DOMAIN ft.array :
              /\ DOMAIN ft.new_array[m] = DOMAIN ft.array[m]
              /\ \A n \in DOMAIN ft.array[m] :
                    ft.new_array[m][n] =
                        MagOfReal(AbsInt(ft.array[m][n]), Rows(ft.array) * Cols(ft.array))

\* C3 witness: a round trip completed on a 2x3 frame holding a negative, a
\* zero and a positive entry.
C3_Witness ==
    /\ ft.pc = "done"
    /\ Rows(ft.array) = 2 /\ Cols(ft.array) = 3
    /\ ft.array[0][0] < 0 /\ ft.array[0][1] = 0 /\ ft.array[1][2] > 0


\* ------------------------------------------------ the public filter calls
\* Largest pixel value of the frames handed to the public functions.
MaxPix == 1

\* Largest threshold handed to wavelet_denoise (the smallest is -1).
MaxThr == 2

\* A numpy array: its number of dimensions, its shape and its data.
Frame(m) == [ndim |-> 2, shape |-> <<Rows(m), Cols(m)>>, data |-> m]

Vector(v) == [ndim |-> 1, shape |-> <<Cardinality(DOMAIN v)>>, data |-> v]

Cube(m) == [ndim |-> 3, shape |-> <<1, Rows(m), Cols(m)>>, data |-> [p \in 0..0 |-> m]]

ConstMatrix(R, C, v) == [i \in 0..R-1 |-> [j \in 0..C-1 |-> v]]

IsConstant(m) == \A i \in DOMAIN m : \A j \in DOMAIN m[i] : m[i][j] = m[0][0]

\* Arrays that are not frames: 1-D vectors and 3-D cubes.
NonFrames ==
    {Vector(v) : v \in [0..1 -> 0..MaxPix]} \cup {Cube(m) : m \in Matrices(1, 2, 0..MaxPix)}

\* Shapes whose spectrum is exact in this arithmetic.
ButterShapes ==
    {s \in (1..4) \X (1..4) : Lcm(s[1], s[2]) \in {1, 2, 3, 4, 6}}

HighpassFrames ==
    {Frame(ConstMatrix(s[1], s[2], v)) : s \in ButterShapes, v \in 1..MaxPix}
    \cup {Frame(m) : m \in Matrices(1, 2, 0..MaxPix) \cup Matrices(2, 2, 0..MaxPix)
                            \cup Matrices(2, 3, 0..MaxPix)}

HighpassModes == {"kernel-conv", "median-subt", "gauss-subt", "fourier-butter"}

Gaussian2dModes == {"conv", "convfft"}

ThrModes == {"hard", "soft"}

KernelSizes == {3, 4, 5}

MedianSizes == {3, 5}

FwhmSizes == {3, 5}

\* A local that is not bound yet, and one bound to v.
Unbound == [bound |-> FALSE]

Val(v) == [bound |-> TRUE, v |-> v]

NoError == [type |-> "none", msg |-> ""]

InputShapeError == [type |-> "TypeError", msg |-> "Input array is not a frame or 2d array"]

ModeError == [type |-> "TypeError", msg |-> "Mode not recognized"]

ThrModeError == [type |-> "ValueError", msg |-> "Threshold mode not recognized"]

UnboundKernelError == [type |-> "UnboundLocalError", msg |-> "kernel"]

Raise(e) == [call EXCEPT !.pc = "raised", !.err = e]

\* ---- library calls whose numeric result no claim reads: uninterpreted terms
convolve_fft(array, kernel) == [op |-> "convolve_fft", array |-> array, kernel |-> kernel]

median_filter(array, size) ==
    [op |-> "median_filter", input |-> array, size |-> size, mode |-> "nearest"]

gaussian_filter(array, size_fwhm) ==
    [op |-> "gaussian_filter", input |-> array,
     sigma |-> <<size_fwhm, "gaussian_fwhm_to_sigma">>, order |-> 0, mode |-> "nearest"]

Gaussian2DKernel(size_fwhm) ==
    [op |-> "Gaussian2DKernel", stddev |-> <<size_fwhm, "gaussian_fwhm_to_sigma">>]

Subtract(a, b) == [op |-> "subtract", a |-> a, b |-> b]

\* ---- the kernels of mode 'kernel-conv'
kernel3 == <<<<-1, -1, -1>>, <<-1, 8, -1>>, <<-1, -1, -1>>>>

kernel5 ==
    <<<<-1, -1, -1, -1, -1>>, <<-1, 1, 2, 1, -1>>, <<-1, 2, 4, 2, -1>>,
      <<-1, 1, 2, 1, -1>>, <<-1, -1, -1, -1, -1>>>>

\* A kernel selection with a default branch.
SelectKernelDefault(kernel_size) ==
    IF kernel_size = 3 THEN Val(kernel3) ELSE Val(kernel5)

\* if kernel_size==3: kernel = kernel3 / elif kernel_size==5: kernel = kernel5
SelectKernel(kernel_size) ==
    IF kernel_size = 3 THEN Val(kernel3)
    ELSE IF kernel_size = 5 THEN Val(kernel5)
    ELSE Unbound

\* ---- the Butterworth transfer function of mode 'fourier-butter'
\* f = 0.5 as FNum / FDen, and pxd = 2.
FNum == 1

FDen == 2

Pxd == 2

\* (linspace(-0.5, 0.5, n)[j] * n / pxd)^2 as a fraction <<num, den>>;
\* linspace with a single point is its start, -0.5.
GridSq(j, n) ==
    IF n = 1 THEN <<n * n, (2 * Pxd) * (2 * Pxd)>>
    ELSE <<((2 * j - (n - 1)) * n) * ((2 * j - (n - 1)) * n),
           (2 * (n - 1) * Pxd) * (2 * (n - 1) * Pxd)>>

\* (radius / f)^2 at row i, column j, as a fraction <<num, den>>.
RadiusRatioSq(i, j, rows, cols) ==
    LET x2 == GridSq(j, cols)
        y2 == GridSq(i, rows)
    IN  <<(x2[1] * y2[2] + y2[1] * x2[2]) * FDen * FDen, x2[2] * y2[2] * FNum * FNum>>

\* Twice the gain 1 - 1/(1 + (radius/f)^(2n)).  The order n = 100 is taken in
\* its limit: (radius/f)^200 is 0 below the cutoff, 1 at it and unbounded
\* above, so the gain is 0, 1/2 (exactly) or 1.
Gain2(q) == IF q[1] < q[2] THEN 0 ELSE IF q[1] = q[2] THEN 1 ELSE 2

ButterFilt(rows, cols) ==
    [i \in 0..rows-1 |-> [j \in 0..cols-1 |-> Gain2(RadiusRatioSq(i, j, rows, cols))]]

\* array_fft * filt, the entries being numerators over 2.
ApplyFilt(array_fft, filt) ==
    [i \in DOMAIN array_fft |-> [j \in DOMAIN array_fft[i] |->
        <<array_fft[i][j][1] * filt[i][j], array_fft[i][j][2] * filt[i][j]>>]]

\* A frame of magnitudes whose denominators are multiplied by k.
OverDen(mags, k) ==
    [i \in DOMAIN mags |-> [j \in DOMAIN mags[i] |->
        [sq |-> mags[i][j].sq, den |-> mags[i][j].den * k]]]

\* ---- frame_filter_gaussian2d as called from mode 'gauss-subt'
Gaussian2dOutcome(array, size_fwhm, mode) ==
    IF array.ndim # 2
    THEN [err |-> InputShapeError, work |-> <<>>, filtered |-> Unbound]
    ELSE IF mode = "conv"
    THEN [err |-> NoError, work |-> <<"gaussian_filter">>,
          filtered |-> Val(gaussian_filter(array, size_fwhm))]
    ELSE IF mode = "convfft"
    THEN [err |-> NoError, work |-> <<"Gaussian2DKernel", "convolve_fft">>,
          filtered |-> Val(convolve_fft(array, Gaussian2DKernel(size_fwhm)))]
    ELSE [err |-> ModeError, work |-> <<>>, filtered |-> Unbound]

\* ---- frame_filter_highpass
InitHighpass ==
    \E a \in HighpassFrames \cup NonFrames, m \in HighpassModes \cup {"bogus"},
       ms \in MedianSizes, ks \in KernelSizes, fs \in FwhmSizes :
        call = [fn |-> "frame_filter_highpass", pc |-> "ndim", array |-> a, mode |-> m,
                median_size |-> ms, kernel_size |-> ks, fwhm_size |-> fs,
                work |-> <<>>, kernel |-> Unbound, filt |-> Unbound,
                filtered |-> Unbound, err |-> NoError]

HP_CheckNdim ==
    /\ call.fn = "frame_filter_highpass" /\ call.pc = "ndim"
    /\ call' = IF call.array.ndim # 2 THEN Raise(InputShapeError)
               ELSE [call EXCEPT !.pc = "mode"]
    /\ UNCHANGED <<ft, th, gk>>

HP_KernelConv ==
    /\ call.fn = "frame_filter_highpass" /\ call.pc = "mode"
    /\ call.mode = "kernel-conv"
    /\ LET kernel == SelectKernel(call.kernel_size)
       IN  call' = IF kernel.bound
                   THEN [call EXCEPT !.pc = "returned", !.kernel = kernel,
                                     !.work = Append(@, "convolve_fft"),
                                     !.filtered = Val(convolve_fft(call.array, kernel.v))]
                   ELSE Raise(UnboundKernelError)
    /\ UNCHANGED <<ft, th, gk>>

HP_MedianSubt ==
    /\ call.fn = "frame_filter_highpass" /\ call.pc = "mode"
    /\ call.mode = "median-subt"
    /\ call' = [call EXCEPT !.pc = "returned",
                   !.work = Append(@, "median_filter"),
                   !.filtered = Val(Subtract(call.array,
                                             median_filter(call.array, call.median_size)))]
    /\ UNCHANGED <<ft, th, gk>>

HP_GaussSubt ==
    /\ call.fn = "frame_filter_highpass" /\ call.pc = "mode"
    /\ call.mode = "gauss-subt"
    /\ LET g == Gaussian2dOutcome(call.array, call.fwhm_size, "conv")
       IN  call' = IF g.err # NoError
                   THEN [Raise(g.err) EXCEPT !.work = @ \o g.work]
                   ELSE [call EXCEPT !.pc = "returned", !.work = @ \o g.work,
                                     !.filtered = Val(Subtract(call.array, g.filtered.v))]
    /\ UNCHANGED <<ft, th, gk>>

\* The value mode 'fourier-butter' returns for the frame m.
FourierButter(m) ==
    OverDen(ifft(ApplyFilt(fft(m), ButterFilt(Rows(m), Cols(m)))), 2)

HP_FourierButter ==
    /\ call.fn = "frame_filter_highpass" /\ call.pc = "mode"
    /\ call.mode = "fourier-butter"
    /\ LET m == call.array.data
       IN  call' = [call EXCEPT !.pc = "returned",
                       !.work = @ \o <<"filt", "fft", "ifft">>,
                       !.filt = Val(ButterFilt(Rows(m), Cols(m))),
                       !.filtered = Val(FourierButter(m))]
    /\ UNCHANGED <<ft, th, gk>>

HP_BadMode ==
    /\ call.fn = "frame_filter_highpass" /\ call.pc = "mode"
    /\ call.mode \notin HighpassModes
    /\ call' = Raise(ModeError)
    /\ UNCHANGED <<ft, th, gk>>

\* ---- frame_filter_gaussian2d
InitGaussian2d ==
    \E a \in HighpassFrames \cup NonFrames, m \in Gaussian2dModes \cup {"bogus"},
       fs \in FwhmSizes :
        call = [fn |-> "frame_filter_gaussian2d", pc |-> "ndim", array |-> a,
                size_fwhm |-> fs, mode |-> m, work |-> <<>>,
                filtered |-> Unbound, err |-> NoError]

\* The dimensionality check passing every array on.
G2_NoCheckNdim ==
    /\ call.fn = "frame_filter_gaussian2d" /\ call.pc = "ndim"
    /\ call' = [call EXCEPT !.pc = "mode"]
    /\ UNCHANGED <<ft, th, gk>>

G2_CheckNdim ==
    /\ call.fn = "frame_filter_gaussian2d" /\ call.pc = "ndim"
    /\ call' = IF call.array.ndim # 2 THEN Raise(InputShapeError)
               ELSE [call EXCEPT !.pc = "mode"]
    /\ UNCHANGED <<ft, th, gk>>

G2_Conv ==
    /\ call.fn = "frame_filter_gaussian2d" /\ call.pc = "mode"
    /\ call.mode = "conv"
    /\ call' = [call EXCEPT !.pc = "returned",
                   !.work = Append(@, "gaussian_filter"),
                   !.filtered = Val(gaussian_filter(call.array, call.size_fwhm))]
    /\ UNCHANGED <<ft, th, gk>>

G2_ConvFFT ==
    /\ call.fn = "frame_filter_gaussian2d" /\ call.pc = "mode"
    /\ call.mode = "convfft"
    /\ call' = [call EXCEPT !.pc = "returned",
                   !.work = @ \o <<"Gaussian2DKernel", "convolve_fft">>,
                   !.filtered = Val(convolve_fft(call.array,
                                                 Gaussian2DKernel(call.size_fwhm)))]
    /\ UNCHANGED <<ft, th, gk>>

G2_BadMode ==
    /\ call.fn = "frame_filter_gaussian2d" /\ call.pc = "mode"
    /\ call.mode \notin Gaussian2dModes
    /\ call' = Raise(ModeError)
    /\ UNCHANGED <<ft, th, gk>>


\* ---- the Haar wavelet transform (pywt.wavedec2 / pywt.waverec2, 'haar')
\* Coefficients are integer numerators over a common denominator 2^levels.
RECURSIVE Pow2(_)
Pow2(k) == IF k = 0 THEN 1 ELSE 2 * Pow2(k - 1)

Scaled(m, k) == [i \in DOMAIN m |-> [j \in DOMAIN m[i] |-> m[i][j] * k]]

\* One level of the 2-D Haar transform of m: <<cA, cH, cV, cD>>, each entry the
\* numerator over 2 of the coefficient (the filters carry 1/sqrt(2) per axis).
HaarStep(m) ==
    LET R == Rows(m) \div 2
        C == Cols(m) \div 2
        Band(sb, sc, sd) ==
            [i \in 0..R-1 |-> [j \in 0..C-1 |->
                m[2*i][2*j] + sb * m[2*i][2*j+1] + sc * m[2*i+1][2*j]
                    + sd * m[2*i+1][2*j+1]]]
    IN  <<Band(1, 1, 1), Band(1, -1, -1), Band(-1, 1, -1), Band(-1, -1, 1)>>

\* The inverse of HaarStep: the entries of the result are numerators over 2
\* of the four bands' common denominator.
HaarInverseStep(cA, cH, cV, cD) ==
    [r \in 0..(2 * Rows(cA) - 1) |-> [c \in 0..(2 * Cols(cA) - 1) |->
        LET i == r \div 2
            j == c \div 2
            sh == IF r % 2 = 0 THEN 1 ELSE -1
            sv == IF c % 2 = 0 THEN 1 ELSE -1
        IN  cA[i][j] + sh * cH[i][j] + sv * cV[i][j] + sh * sv * cD[i][j]]]

\* pywt.wavedec2(data, 'haar', level): <<<<cA_n>>, <<cH_n, cV_n, cD_n>>, ...,
\* <<cH_1, cV_1, cD_1>>>>, every entry a numerator over den.
RECURSIVE wavedec2(_, _, _)
wavedec2(m, level, den) ==
    LET s == HaarStep(m)
        details == <<Scaled(s[2], den \div 2), Scaled(s[3], den \div 2),
                     Scaled(s[4], den \div 2)>>
    IN  IF level = 1 THEN <<<<Scaled(s[1], den \div 2)>>, details>>
        ELSE Append(wavedec2(s[1], level - 1, den \div 2), details)

\* pywt.waverec2(coeffs, 'haar'): the numerators of the frame, over den times
\* 2 per level.
RECURSIVE waverec2(_)
waverec2(coeffs) ==
    LET n == Len(coeffs)
    IN  IF n = 2
        THEN HaarInverseStep(coeffs[1][1], coeffs[2][1], coeffs[2][2], coeffs[2][3])
        ELSE LET a == waverec2(SubSeq(coeffs, 1, n - 1))
                 k == Pow2(n - 2)
             IN  HaarInverseStep(a, Scaled(coeffs[n][1], k), Scaled(coeffs[n][2], k),
                                 Scaled(coeffs[n][3], k))

Sign(x) == IF x > 0 THEN 1 ELSE IF x < 0 THEN -1 ELSE 0

MaxInt(a, b) == IF a >= b THEN a ELSE b

\* Thresholding with the comparison turned round: the values at or above the
\* threshold are zeroed.
HardInverted(x, value, den) == IF AbsInt(x) >= value * den THEN 0 ELSE x

\* The thresholding shrinking the values it keeps, as soft does.
HardAsSoft(x, value, den) == Sign(x) * MaxInt(AbsInt(x) - value * den, 0)

\* pywt.thresholding.hard on the numerator x over den: values with absolute
\* magnitude below the threshold are zeroed, the others kept.
Hard(x, value, den) == IF AbsInt(x) < value * den THEN 0 ELSE x

\* Shrinking without the clamp at zero.
SoftUnclamped(x, value, den) == Sign(x) * (AbsInt(x) - value * den)

\* pywt.thresholding.soft on the numerator x over den:
\* sign(x) * max(|x| - threshold, 0).
Soft(x, value, den) == Sign(x) * MaxInt(AbsInt(x) - value * den, 0)

\* map(lambda x: pywt.thresholding.<thrmode>(x, threshold), WC)
MapThreshold(thrmode, WC, threshold, den) ==
    [k \in DOMAIN WC |-> [b \in DOMAIN WC[k] |->
        [i \in DOMAIN WC[k][b] |-> [j \in DOMAIN WC[k][b][i] |->
            IF thrmode = "hard" THEN Hard(WC[k][b][i][j], threshold, den)
            ELSE Soft(WC[k][b][i][j], threshold, den)]]]]

\* ---- wavelet_denoise
\* 4x4 frames, which decompose to two levels.
Frames4 ==
    {[i \in 0..3 |-> [j \in 0..3 |-> u * i + v * j + w * ((i * j) % 2)]] :
        u \in 0..1, v \in 0..1, w \in 0..1}

WaveletFrames ==
    {Frame(m) : m \in Matrices(2, 2, (-1)..MaxPix) \cup Frames4}

\* The deepest decomposition of an array: 1 for 2x2, 2 for 4x4.
MaxLevel(a) == IF a.ndim = 2 /\ a.shape = <<4, 4>> THEN 2 ELSE 1

InitWavelet ==
    \E a \in WaveletFrames \cup NonFrames, t \in (-1)..MaxThr,
       tm \in ThrModes \cup {"bogus"} :
        \E lv \in 1..MaxLevel(a) :
            call = [fn |-> "wavelet_denoise", pc |-> "ndim", array |-> a,
                    wavelet |-> "haar", threshold |-> t, levels |-> lv, thrmode |-> tm,
                    work |-> <<>>, WC |-> Unbound, NWC |-> Unbound,
                    array_filtered |-> Unbound, err |-> NoError]

WD_CheckNdim ==
    /\ call.fn = "wavelet_denoise" /\ call.pc = "ndim"
    /\ call' = IF call.array.ndim # 2 THEN Raise(InputShapeError)
               ELSE [call EXCEPT !.pc = "wavedec2"]
    /\ UNCHANGED <<ft, th, gk>>

WD_Decompose ==
    /\ call.fn = "wavelet_denoise" /\ call.pc = "wavedec2"
    /\ call' = [call EXCEPT !.pc = "thrmode",
                   !.work = Append(@, "wavedec2"),
                   !.WC = Val(wavedec2(call.array.data, call.levels, Pow2(call.levels)))]
    /\ UNCHANGED <<ft, th, gk>>

WD_Threshold ==
    /\ call.fn = "wavelet_denoise" /\ call.pc = "thrmode"
    /\ call.thrmode \in ThrModes
    /\ call' = [call EXCEPT !.pc = "waverec2",
                   !.work = Append(@, call.thrmode),
                   !.NWC = Val(MapThreshold(call.thrmode, call.WC.v, call.threshold,
                                            Pow2(call.levels)))]
    /\ UNCHANGED <<ft, th, gk>>

WD_BadThrmode ==
    /\ call.fn = "wavelet_denoise" /\ call.pc = "thrmode"
    /\ call.thrmode \notin ThrModes
    /\ call' = Raise(ThrModeError)
    /\ UNCHANGED <<ft, th, gk>>

\* array_filtered: the numerators num of the frame over den = 4^levels.
WD_Reconstruct ==
    /\ call.fn = "wavelet_denoise" /\ call.pc = "waverec2"
    /\ call' = [call EXCEPT !.pc = "returned",
                   !.work = Append(@, "waverec2"),
                   !.array_filtered =
                       Val([num |-> waverec2(call.NWC.v),
                            den |-> Pow2(call.levels) * Pow2(call.levels)])]
    /\ UNCHANGED <<ft, th, gk>>

\* ---- the specification of the three public filter functions
Init ==
    /\ InitHighpass \/ InitGaussian2d \/ InitWavelet
    /\ ft = Idle
    /\ th = Idle
    /\ gk = Idle

Next ==
    \/ HP_CheckNdim
    \/ HP_KernelConv
    \/ HP_MedianSubt
    \/ HP_GaussSubt
    \/ HP_FourierButter
    \/ HP_BadMode
    \/ G2_CheckNdim
    \/ G2_Conv
    \/ G2_ConvFFT
    \/ G2_BadMode
    \/ WD_CheckNdim
    \/ WD_Decompose
    \/ WD_Threshold
    \/ WD_BadThrmode
    \/ WD_Reconstruct

Spec == Init /\ [][Next]_vars

Done == call.pc \in {"returned", "raised"}

InvalidSelector ==
    \/ call.fn = "frame_filter_highpass" /\ call.mode \notin HighpassModes
    \/ call.fn = "frame_filter_gaussian2d" /\ call.mode \notin Gaussian2dModes
    \/ call.fn = "wavelet_denoise" /\ call.thrmode \notin ThrModes

\* C1: in the three public filter functions an array that is not 2-D fails
\* with the input-shape error as the first step, with no numeric work done,
\* whatever the mode, thrmode and kernel_size are.
C1_NdimCheckedFirst ==
    (call.array.ndim # 2 /\ call.pc # "ndim") =>
        /\ call.pc = "raised"
        /\ call.err = InputShapeError
        /\ call.work = <<>>

\* C1 witness: a 3-D array with an unrecognized mode and an unsupported
\* kernel_size was rejected by frame_filter_highpass.
C1_Witness ==
    /\ call.fn = "frame_filter_highpass" /\ call.pc = "raised"
    /\ call.array.ndim = 3 /\ call.mode = "bogus" /\ call.kernel_size = 4

\* C2 (as claimed): for a 2-D input an invalid mode / thrmode is rejected
\* with its error before any transform step has been executed.
C2_SelectorRejectedBeforeWork ==
    (call.array.ndim = 2 /\ InvalidSelector /\ Done) =>
        /\ call.pc = "raised"
        /\ call.err = IF call.fn = "wavelet_denoise" THEN ThrModeError ELSE ModeError
        /\ call.work = <<>>

\* C4 (as claimed): mode 'fourier-butter' applied to a (non-zero) constant
\* frame of any shape returns an all-zero frame, the transfer function being zero, and
\* the radius below the cutoff, at row rows div 2, column cols div 2.
C4_ConstantFrameIsRemoved ==
    (/\ call.fn = "frame_filter_highpass" /\ call.pc = "returned"
     /\ call.mode = "fourier-butter" /\ IsConstant(call.array.data)
     /\ call.array.data[0][0] # 0) =>
        LET rows == call.array.shape[1]
            cols == call.array.shape[2]
            q    == RadiusRatioSq(rows \div 2, cols \div 2, rows, cols)
        IN  /\ q[1] < q[2]
            /\ call.filt.v[rows \div 2][cols \div 2] = 0
            /\ \A i \in 0..rows-1 : \A j \in 0..cols-1 : call.filtered.v[i][j].sq = 0

\* C5: wavelet_denoise with threshold 0 leaves every coefficient of every
\* band as decomposed, for 'hard' and for 'soft', and returns the array.
C5_ZeroThresholdIsIdentity ==
    (call.fn = "wavelet_denoise" /\ call.threshold = 0) =>
        /\ call.pc \in {"waverec2", "returned"} => call.NWC = call.WC
        /\ call.pc = "returned" =>
              call.array_filtered.v.num =
                  Scaled(call.array.data, call.array_filtered.v.den)

\* C5 witness: a two-level soft denoising of a non-constant frame at
\* threshold 0 has returned.
C5_Witness ==
    /\ call.fn = "wavelet_denoise" /\ call.pc = "returned"
    /\ call.threshold = 0 /\ call.thrmode = "soft" /\ call.levels = 2
    /\ ~IsConstant(call.array.data)

CoefficientsShrunk(strictly) ==
    LET WC  == call.WC.v
        NWC == call.NWC.v
    IN  \A k \in DOMAIN WC : \A b \in DOMAIN WC[k] :
            \A i \in DOMAIN WC[k][b] : \A j \in DOMAIN WC[k][b][i] :
                IF strictly
                THEN WC[k][b][i][j] # 0 => AbsInt(NWC[k][b][i][j]) < AbsInt(WC[k][b][i][j])
                ELSE AbsInt(NWC[k][b][i][j]) <= AbsInt(WC[k][b][i][j])

\* C6 (as claimed): soft thresholding is non-expansive for every threshold
\* wavelet_denoise accepts, of either sign.
C6_SoftNonExpansiveAnyThreshold ==
    (/\ call.fn = "wavelet_denoise" /\ call.thrmode = "soft"
     /\ call.pc \in {"waverec2", "returned"}) =>
        CoefficientsShrunk(FALSE)

\* C6 (amended): soft thresholding is non-expansive for every threshold
\* T >= 0: no coefficient grows in absolute value.
C6_SoftNonExpansive ==
    (/\ call.fn = "wavelet_denoise" /\ call.thrmode = "soft"
     /\ call.pc \in {"waverec2", "returned"} /\ call.threshold >= 0) =>
        CoefficientsShrunk(FALSE)

\* C6 witness: a soft thresholding at a positive threshold that shrank every
\* non-zero coefficient and left one of them non-zero.
C6_Witness ==
    /\ call.fn = "wavelet_denoise" /\ call.thrmode = "soft"
    /\ call.pc = "waverec2" /\ call.threshold > 0
    /\ CoefficientsShrunk(TRUE)
    /\ \E k \in DOMAIN call.NWC.v : \E b \in DOMAIN call.NWC.v[k] :
          call.NWC.v[k][b][0][0] # 0

\* What the modes other than 'kernel-conv' return, from the parameters they read.
OtherModeValue(array, mode, median_size, fwhm_size) ==
    CASE mode = "median-subt" ->
            Val(Subtract(array, median_filter(array, median_size)))
      [] mode = "gauss-subt" ->
            Val(Subtract(array, gaussian_filter(array, fwhm_size)))
      [] mode = "fourier-butter" -> Val(FourierButter(array.data))

\* C9: for a 2-D array, kernel_size 3 and 5 select the 3x3 and the 5x5
\* kernel; another kernel_size raises neither the input-shape nor the mode
\* error, selects no kernel in mode 'kernel-conv' (no filtered frame, nothing
\* convolved) and does not affect the result of the other modes.
C9_KernelSize ==
    (/\ call.fn = "frame_filter_highpass" /\ call.array.ndim = 2
     /\ call.mode \in HighpassModes /\ Done) =>
        /\ (call.mode = "kernel-conv" /\ call.kernel_size = 3) =>
              /\ call.pc = "returned"
              /\ call.filtered = Val(convolve_fft(call.array, kernel3))
        /\ (call.mode = "kernel-conv" /\ call.kernel_size = 5) =>
              /\ call.pc = "returned"
              /\ call.filtered = Val(convolve_fft(call.array, kernel5))
        /\ call.kernel_size \notin {3, 5} =>
              call.err \notin {InputShapeError, ModeError}
        /\ (call.mode = "kernel-conv" /\ call.kernel_size \notin {3, 5}) =>
              /\ call.pc = "raised"
              /\ call.err = UnboundKernelError
              /\ call.kernel = Unbound
              /\ call.filtered = Unbound
              /\ call.work = <<>>
        /\ call.mode # "kernel-conv" =>
              /\ call.pc = "returned"
              /\ call.filtered =
                    OtherModeValue(call.array, call.mode, call.median_size,
                                   call.fwhm_size)

\* C9 witness: mode 'kernel-conv' with kernel_size 4 on a 2-D frame ended
\* with the kernel unbound.
C9_Witness ==
    /\ call.fn = "frame_filter_highpass" /\ call.pc = "raised"
    /\ call.array.ndim = 2 /\ call.mode = "kernel-conv" /\ call.kernel_size = 4
    /\ call.err = UnboundKernelError


\* ------------------------------------------- hard thresholding, repeated
\* Largest absolute value of a coefficient, and longest coefficient array.
MaxCoef == 2

MaxLen == 2

\* pywt.thresholding.hard applied to a whole coefficient array.
HardArray(c, value) == [i \in DOMAIN c |-> Hard(c[i], value, 1)]

CoefArrays == UNION {[1..n -> (-MaxCoef)..MaxCoef] : n \in 1..MaxLen}

InitThr ==
    /\ \E c \in CoefArrays, t \in (-1)..(MaxCoef + 1) :
          th = [pc |-> "hard", c |-> c, threshold |-> t, once |-> <<>>, twice |-> <<>>]
    /\ call = Idle
    /\ ft = Idle
    /\ gk = Idle

TH_Hard ==
    /\ th.pc = "hard"
    /\ th' = [th EXCEPT !.pc = "again", !.once = HardArray(th.c, th.threshold)]
    /\ UNCHANGED <<call, ft, gk>>

TH_HardAgain ==
    /\ th.pc = "again"
    /\ th' = [th EXCEPT !.pc = "done", !.twice = HardArray(th.once, th.threshold)]
    /\ UNCHANGED <<call, ft, gk>>

NextThr == TH_Hard \/ TH_HardAgain

SpecThr == InitThr /\ [][NextThr]_vars

\* C7: hard thresholding at T is idempotent: hard(hard(c, T), T) = hard(c, T),
\* hard zeroing the values with |x| < T and keeping those with |x| >= T.
C7_HardIdempotent ==
    /\ th.pc \in {"again", "done"} =>
          \A i \in DOMAIN th.c :
              th.once[i] = IF AbsInt(th.c[i]) < th.threshold THEN 0 ELSE th.c[i]
    /\ th.pc = "done" => th.twice = th.once

\* C7 witness: hard was applied twice to an array of which it zeroed a
\* non-zero value and kept a value of magnitude exactly T.
C7_Witness ==
    /\ th.pc = "done" /\ th.threshold > 0
    /\ \E i \in DOMAIN th.c : th.c[i] # 0 /\ th.once[i] = 0
    /\ \E i \in DOMAIN th.c : AbsInt(th.c[i]) = th.threshold /\ th.once[i] = th.c[i]

\* ---------------------------------------------------- gaussian_kernel
\* Largest int(size) and int(size_y), and largest numerator and denominator
\* of the aperture flux.
MaxSize == 2

MaxFlux == 3

\* An argument: None, or the number h/2 (so that 0, 0.5, 1, 1.5, ... occur).
None == [none |-> TRUE, h |-> 0]

Num(h) == [none |-> FALSE, h |-> h]

\* int(): truncation of the non-negative number h/2.
IntOf(a) == a.h \div 2

\* Python truth value of an argument: None, 0 and 0.0 are false.
Truthy(a) == ~a.none /\ a.h # 0

Reduce(q) == LET d == Gcd(q[1], q[2]) IN <<q[1] \div d, q[2] \div d>>

\* A floating-point value: nan, or (c[1]/c[2]) * exp(-e / (size*size_y)).
NaN == [nan |-> TRUE, c |-> <<0, 1>>, e |-> 0]

Real(c, e) == [nan |-> FALSE, c |-> Reduce(c), e |-> e]

Div(u, v) ==
    IF u.nan \/ v.nan THEN NaN
    ELSE Real(<<u.c[1] * v.c[2], u.c[2] * v.c[1]>>, u.e - v.e)

DivAll(m, v) == [i \in DOMAIN m |-> [j \in DOMAIN m[i] |-> Div(m[i][j], v)]]

Entries(m) == {m[i][j] : i \in DOMAIN m, j \in DOMAIN m[0]}

\* numpy max: nan if an entry is nan, else the largest entry (the entries of
\* one kernel share their coefficient, so the smallest exponent -e wins).
MaxOf(m) ==
    IF \E v \in Entries(m) : v.nan THEN NaN
    ELSE CHOOSE v \in Entries(m) : \A w \in Entries(m) : w.c = v.c /\ w.e >= v.e

\* x, y = np.mgrid[-size:size+1, -size_y:size_y+1];
\* g = np.exp(-(x**2/float(size) + y**2/float(size_y))); a division 0/0.0 of
\* the array by a zero size_y is nan.
GaussianGrid(size, size_y) ==
    [i \in 0..(2 * size) |-> [j \in 0..(2 * size_y) |->
        IF size = 0 \/ size_y = 0 THEN NaN
        ELSE Real(<<1, 1>>, (i - size) * (i - size) * size_y
                              + (j - size_y) * (j - size_y) * size)]]

\* The final division by the peak of g instead of the peak of g_norm.
NormalizeByPeakOfG(g, aperture_sum) ==
    DivAll(DivAll(g, aperture_sum), MaxOf(g))

\* g_norm = g / aperture_sum; return g_norm / g_norm.max()
Normalize(g, aperture_sum) ==
    LET g_norm == DivAll(g, aperture_sum)
    IN  DivAll(g_norm, MaxOf(g_norm))

KernelSizeArgs == {Num(h) : h \in 2..(2 * MaxSize + 1)}

KernelSizeYArgs == {None} \cup {Num(h) : h \in 0..(2 * MaxSize + 1)}

\* The fluxes the aperture photometry can return for a kernel without nan:
\* positive numbers.
Fluxes == {Real(<<n, d>>, 0) : n \in 1..MaxFlux, d \in 1..MaxFlux}

InitKernel ==
    /\ \E a \in KernelSizeArgs, b \in KernelSizeYArgs :
          gk = [pc |-> "int", size_arg |-> a, size_y_arg |-> b, size |-> 0, size_y |-> 0,
                g |-> <<>>, aperture_sum |-> NaN, result |-> <<>>]
    /\ call = Idle
    /\ ft = Idle
    /\ th = Idle

GK_Truncate ==
    /\ gk.pc = "int"
    /\ gk' = [gk EXCEPT !.pc = "grid",
                 !.size = IntOf(gk.size_arg),
                 !.size_y = IF ~Truthy(gk.size_y_arg) THEN IntOf(gk.size_arg)
                            ELSE IntOf(gk.size_y_arg)]
    /\ UNCHANGED <<call, ft, th>>

GK_Gaussian ==
    /\ gk.pc = "grid"
    /\ gk' = [gk EXCEPT !.pc = "phot", !.g = GaussianGrid(gk.size, gk.size_y)]
    /\ UNCHANGED <<call, ft, th>>

\* The flux in the circular aperture of radius size/2 at the kernel's centre:
\* some positive number for a kernel of positive entries, nan for one of nan.
GK_Photometry ==
    /\ gk.pc = "phot"
    /\ \E s \in Fluxes \cup {NaN} :
          /\ s.nan <=> MaxOf(gk.g).nan
          /\ gk' = [gk EXCEPT !.pc = "norm", !.aperture_sum = s]
    /\ UNCHANGED <<call, ft, th>>

GK_Normalize ==
    /\ gk.pc = "norm"
    /\ gk' = [gk EXCEPT !.pc = "done", !.result = Normalize(gk.g, gk.aperture_sum)]
    /\ UNCHANGED <<call, ft, th>>

NextKernel == GK_Truncate \/ GK_Gaussian \/ GK_Photometry \/ GK_Normalize

SpecKernel == InitKernel /\ [][NextKernel]_vars

\* C8 (as claimed): the kernel has 2*int(size) + 1 rows and 2*int(size_y) + 1
\* columns, size_y being replaced by size only when it is None; in
\* particular for size_y = 0.
C8_GridSpansArguments ==
    gk.pc \in {"phot", "norm", "done"} =>
        /\ Rows(gk.g) = 2 * IntOf(gk.size_arg) + 1
        /\ Cols(gk.g) = 2 * IntOf(IF gk.size_y_arg.none THEN gk.size_arg
                                  ELSE gk.size_y_arg) + 1

\* g divided by its own maximum alone.
PeakNormalized(g) == DivAll(g, MaxOf(g))

\* C10 (as claimed): for a flux S > 0 (and other than 1) the returned kernel
\* differs from g divided by its own maximum: the flux normalization shows
\* in the output.
C10_FluxStageChangesOutput ==
    (gk.pc = "done" /\ ~gk.aperture_sum.nan /\ gk.aperture_sum.c # <<1, 1>>) =>
        gk.result # PeakNormalized(gk.g)

\* C10 (amended): for a flux S > 0 the returned kernel equals g divided by
\* its own maximum, with peak 1: the flux normalization cancels.
C10_FluxStageCancels ==
    (gk.pc = "done" /\ ~gk.aperture_sum.nan) =>
        /\ gk.result = PeakNormalized(gk.g)
        /\ MaxOf(gk.result) = Real(<<1, 1>>, 0)

\* C10 witness: a kernel normalized with a flux other than 1 was returned.
C10_Witness ==
    /\ gk.pc = "done" /\ ~gk.aperture_sum.nan
    /\ gk.aperture_sum.c # <<1, 1>>
    /\ gk.size # gk.size_y

====
